---- MODULE Spec2Model ----
(***************************************************************************)
(* Model of juniper's container support (juniper/src/types/containers.rs)  *)
(* and of the custom scalar decoding visitor of the integration tests      *)
(* (integration_tests/juniper_tests/src/custom_scalar.rs).                 *)
(*                                                                         *)
(* Four specifications share the module:                                   *)
(*   SpecConv    FromInputValue for Vec<T> and [T; N]                      *)
(*   SpecScalar  MyScalarValueVisitor::visit_i64 / visit_u64               *)
(*   SpecList    resolve_into_list and resolve_into_list_async             *)
(*   SpecOption  GraphQLValue / GraphQLValueAsync for Option<T>            *)
(***************************************************************************)
EXTENDS Integers, Sequences, FiniteSets, TLC

(* ------------------------------ bounds -------------------------------- *)

\* Longest source list handed to a conversion or a list resolver.
MaxLen == 3

\* Largest arity N of a fixed-size array [T; N].
MaxN == 3

\* Number of distinct convertible items / resolvable leaf values.
MaxVal == 2

\* Distance explored around each boundary of the integer ranges.
Spread == 1

\* Number of Option resolutions issued on one executor.
MaxCalls == 2

VARIABLES
    \* ---- FromInputValue for Vec<T> and [T; N] ----
    v,          \* the source InputValue
    N,          \* the const generic arity of [T; N]
    out,        \* PartiallyInitializedArray { arr, init_len, no_drop }
    items,      \* the filter_map iterator: number of source items consumed
    elem,       \* the `for elem in &mut out.arr[..]` cursor: slots visited
    arrPc,      \* position inside [T; N]::from_input_value
    arrRet,     \* what [T; N]::from_input_value returned
    dropped,    \* per slot, how often the guard ran drop_in_place on it
    vecRet,     \* what Vec<T>::from_input_value returned
    \* ---- scalar decoding visitor ----
    num,        \* the 64-bit pattern handed to the visitor
    decoded,    \* the visitor call made and its result
    \* ---- list resolvers ----
    elems,      \* per source element, the outcome of resolving it
    contents,   \* executor.current_type().list_contents()
    syncRet,    \* what resolve_into_list returned and how far it went
    asyncPc,    \* position inside resolve_into_list_async
    futures,    \* FuturesOrdered: per element "pending" | "ready" | "taken"
    outputs,    \* per element, the value its finished future holds
    values,     \* the `values` vector of resolve_into_list_async
    order,      \* the element futures in the order they finished
    asyncRet,   \* what resolve_into_list_async returned
    \* ---- Option<T> resolution ----
    errors,     \* the executor's recorded errors (push_error)
    log         \* the Option resolutions issued so far, oldest first

convVars == <<v, N, out, items, elem, arrPc, arrRet, dropped, vecRet>>
scalarVars == <<num, decoded>>
listVars == <<elems, contents, syncRet, asyncPc, futures, outputs, values, order, asyncRet>>
optVars == <<errors, log>>
vars == <<convVars, scalarVars, listVars, optVars>>

\* What each part leaves alone.
convRest == <<scalarVars, listVars, optVars>>
scalarRest == <<convVars, listVars, optVars>>
listRest == <<convVars, scalarVars, optVars>>
optRest == <<convVars, scalarVars, listVars>>

(* ===================================================================== *)
(*  FromInputValue for Vec<T> and [T; N]                                 *)
(* ===================================================================== *)

\* Source items. A positive item converts to a T, Unconvertible makes
\* T::from_input_value return None, Panicking makes it panic.
Unconvertible == 0
Panicking == 0 - 1
Item == Panicking .. MaxVal

\* A slot of [MaybeUninit<T>; N] that was never written.
Uninit == 0

\* The T a convertible item converts to (distinct from the item and from
\* Uninit).
TValue(i) == 100 + i

Ret(kind, val) == [kind |-> kind, val |-> val]

\* i.item.convert(): Option<T>, or a panic of the user's implementation.
Convert(i) ==
    IF i = Panicking THEN Ret("Panic", Uninit)
    ELSE IF i = Unconvertible THEN Ret("None", Uninit)
    ELSE Ret("Some", TValue(i))

ListValue(ls) == [kind |-> "List", body |-> ls]
OtherValue(i) == [kind |-> "Other", body |-> <<i>>]

SeqsUpTo(S, n) == UNION {[1..k -> S] : k \in 0..n}

InputValue == {ListValue(ls) : ls \in SeqsUpTo(Item, MaxLen)} \cup {OtherValue(i) : i \in Item}

\* ls.iter().filter_map(|i| i.item.convert()).next() with `pos` source items
\* already consumed: skips the items converting to None.
FilterMapNextStopsAtNone(ls, pos) ==
    IF pos >= Len(ls) THEN [kind |-> "None", val |-> Uninit, pos |-> pos]
    ELSE LET c == Convert(ls[pos + 1]) IN
         [kind |-> c.kind, val |-> c.val, pos |-> pos + 1]

RECURSIVE FilterMapNext(_, _)
FilterMapNext(ls, pos) ==
    IF pos >= Len(ls) THEN [kind |-> "None", val |-> Uninit, pos |-> pos]
    ELSE LET c == Convert(ls[pos + 1]) IN
         IF c.kind = "None" THEN FilterMapNext(ls, pos + 1)
         ELSE [kind |-> c.kind, val |-> c.val, pos |-> pos + 1]

\* ....collect::<Vec<_>>() over the same iterator.
RECURSIVE FilterMapCollect(_, _, _)
FilterMapCollect(ls, pos, acc) ==
    LET r == FilterMapNext(ls, pos) IN
    IF r.kind = "Some" THEN FilterMapCollect(ls, r.pos, Append(acc, r.val))
    ELSE Ret(r.kind, acc)

\* Vec<T>::from_input_value
VecFromInputValueListsOnly(iv) ==
    IF iv.kind = "List"
    THEN LET c == FilterMapCollect(iv.body, 0, <<>>) IN
         IF c.kind = "Panic" THEN Ret("Panic", <<>>)
         ELSE IF Len(c.val) = Len(iv.body) THEN Ret("Some", c.val)
         ELSE Ret("None", <<>>)
    ELSE LET c == Convert(iv.body[1]) IN
         IF c.kind = "Panic" THEN Ret("Panic", <<>>) ELSE Ret("Some", <<>>)

VecFromInputValue(iv) ==
    IF iv.kind = "List"
    THEN LET c == FilterMapCollect(iv.body, 0, <<>>) IN
         IF c.kind = "Panic" THEN Ret("Panic", <<>>)
         ELSE IF Len(c.val) = Len(iv.body) THEN Ret("Some", c.val)
         ELSE Ret("None", <<>>)
    ELSE LET c == Convert(iv.body[1]) IN
         IF c.kind = "Some" THEN Ret("Some", <<c.val>>) ELSE Ret(c.kind, <<>>)

\* PartiallyInitializedArray { arr: uninit, init_len: 0, no_drop: false }
NewGuard(n) == [arr |-> [k \in 1..n |-> Uninit], init_len |-> 0, no_drop |-> FALSE]

\* impl Drop for PartiallyInitializedArray: drop_in_place on arr[0..init_len]
\* unless no_drop. `d` counts the destructions per slot.
GuardDropIgnoringNoDrop(g, d) ==
    [k \in DOMAIN d |-> IF k <= g.init_len THEN d[k] + 1 ELSE d[k]]

GuardDrop(g, d) ==
    IF g.no_drop THEN d
    ELSE [k \in DOMAIN d |-> IF k <= g.init_len THEN d[k] + 1 ELSE d[k]]

\* The single-value arm: N == 1 decides.
SingleFitsAnyArity(n) == n >= 1

SingleFits(n) == n = 1

\* The check after the fill loop: items.next().is_some().
TooManyNever(r) == FALSE

TooMany(r) == r.kind = "Some"

ConvInit ==
    /\ v \in InputValue
    /\ N \in 0..MaxN
    /\ out = NewGuard(N)
    /\ items = 0
    /\ elem = 0
    /\ arrPc = "call"
    /\ arrRet = Ret("Pending", <<>>)
    /\ dropped = [k \in 1..N |-> 0]
    /\ vecRet = Ret("Pending", <<>>)

\* Vec<T>::from_input_value(v), as one call.
VecCall ==
    /\ vecRet.kind = "Pending"
    /\ vecRet' = VecFromInputValue(v)
    /\ UNCHANGED <<v, N, out, items, elem, arrPc, arrRet, dropped>>
    /\ UNCHANGED convRest

\* Leaving [T; N]::from_input_value's List arm with guard `g` in scope:
\* the guard is dropped, by the return or by the unwinding.
ArrLeave(g, r) ==
    /\ out' = g
    /\ dropped' = GuardDrop(g, dropped)
    /\ arrRet' = r
    /\ arrPc' = "done"

\* match *v: the List arm builds the guard, any other value goes to the
\* single-value arm.
ArrMatch ==
    /\ arrPc = "call"
    /\ IF v.kind = "List"
       THEN /\ out' = NewGuard(N)
            /\ items' = 0
            /\ elem' = 0
            /\ arrPc' = "fill"
       ELSE /\ arrPc' = "other"
            /\ UNCHANGED <<out, items, elem>>
    /\ UNCHANGED <<v, N, arrRet, dropped, vecRet>>
    /\ UNCHANGED convRest

\* One turn of `for elem in &mut out.arr[..]`.
ArrFill ==
    /\ arrPc = "fill"
    /\ elem < N
    /\ LET r == FilterMapNext(v.body, items) IN
       /\ items' = r.pos
       /\ CASE r.kind = "Some" ->
                 /\ out' = [out EXCEPT !.arr[elem + 1] = r.val, !.init_len = @ + 1]
                 /\ elem' = elem + 1
                 /\ UNCHANGED <<arrPc, arrRet, dropped>>
            [] r.kind = "None" ->
                 \* There is not enough `items` to fill the array.
                 /\ ArrLeave(out, Ret("None", <<>>))
                 /\ UNCHANGED elem
            [] OTHER ->
                 \* i.item.convert() panicked: the guard is dropped by the unwinding.
                 /\ ArrLeave(out, Ret("Panic", <<>>))
                 /\ UNCHANGED elem
    /\ UNCHANGED <<v, N, vecRet>>
    /\ UNCHANGED convRest

\* After the loop: one more items.next(), then no_drop and transmute_copy.
ArrFinish ==
    /\ arrPc = "fill"
    /\ elem = N
    /\ LET r == FilterMapNext(v.body, items) IN
       /\ items' = r.pos
       /\ IF TooMany(r)
          THEN \* There is too much `items` to fit into the array.
               ArrLeave(out, Ret("None", <<>>))
          ELSE IF r.kind = "Panic"
          THEN ArrLeave(out, Ret("Panic", <<>>))
          ELSE ArrLeave([out EXCEPT !.no_drop = TRUE],
                        Ret("Some", [k \in 1..N |-> out.arr[k]]))
    /\ UNCHANGED <<v, N, elem, vecRet>>
    /\ UNCHANGED convRest

\* ref other => other.convert().and_then(|e| if N == 1 { Some([e]) } else { None })
ArrOther ==
    /\ arrPc = "other"
    /\ LET c == Convert(v.body[1]) IN
       arrRet' = IF c.kind = "Some"
                 THEN IF SingleFits(N) THEN Ret("Some", <<c.val>>) ELSE Ret("None", <<>>)
                 ELSE Ret(c.kind, <<>>)
    /\ arrPc' = "done"
    /\ UNCHANGED <<v, N, out, items, elem, dropped, vecRet>>
    /\ UNCHANGED convRest

ConvNext == VecCall \/ ArrMatch \/ ArrFill \/ ArrFinish \/ ArrOther

(* ----------------------- claims: FromInputValue ----------------------- *)

HasUnconvertible(ls) == \E i \in DOMAIN ls : Convert(ls[i]).kind = "None"
AllConvertible(ls) == \A i \in DOMAIN ls : Convert(ls[i]).kind = "Some"
Converted(ls) == [i \in DOMAIN ls |-> TValue(ls[i])]

\* C1: a source List with at least one element whose conversion fails is
\* never converted to a collection, neither by Vec<T>::from_input_value nor
\* by [T; N]::from_input_value, whatever N and the List's length.
C1_AllOrNothing ==
    (v.kind = "List" /\ HasUnconvertible(v.body))
        => (vecRet.kind # "Some" /\ arrRet.kind # "Some")

\* C2: for a source List of length L whose elements all convert,
\* [T; N]::from_input_value succeeds exactly when L = N, returns the
\* conversions of the elements in the List's order, and returns None when
\* L < N or L > N.
C2_ExactArity ==
    (arrPc = "done" /\ v.kind = "List" /\ AllConvertible(v.body))
        => /\ arrRet.kind = "Some" <=> Len(v.body) = N
           /\ arrRet.kind = "Some" => arrRet.val = Converted(v.body)
           /\ Len(v.body) # N => arrRet = Ret("None", <<>>)

C2_Witness ==
    /\ arrPc = "done" /\ v.kind = "List" /\ AllConvertible(v.body)
    /\ N = 2 /\ Len(v.body) = 2 /\ v.body[1] # v.body[2]
    /\ arrRet.kind = "Some"

\* C3: on a List, however [T; N]::from_input_value ends (too few items, too
\* many items, a panic of an element conversion after k slots are filled),
\* the guard destructs every slot that was filled exactly once and no slot
\* that was never filled; when the conversion returns Some, the guard
\* destructs none of the N elements handed to the caller. Nothing is
\* destructed before the function is left.
C3_GuardDrops ==
    v.kind = "List" =>
        IF arrPc = "done" /\ arrRet.kind # "Some"
        THEN \A k \in 1..N : dropped[k] = IF out.arr[k] # Uninit THEN 1 ELSE 0
        ELSE /\ \A k \in 1..N : dropped[k] = 0
             /\ arrPc = "done" => \A k \in 1..N : arrRet.val[k] = out.arr[k] /\ out.arr[k] # Uninit

C3_Witness ==
    /\ arrPc = "done" /\ v.kind = "List" /\ arrRet.kind = "Panic"
    /\ out.init_len = 2 /\ N = 3
    /\ dropped = <<1, 1, 0>>

\* C9: for a source that is not a List, [T; N]::from_input_value returns
\* Some exactly when the value converts as a single T and N = 1, the result
\* being the one-element array of that T; when the value converts and N is
\* anything else (0 included), or when it does not convert, it returns None.
C9_SingleValue ==
    (arrPc = "done" /\ v.kind = "Other") =>
        LET c == Convert(v.body[1]) IN
        /\ arrRet.kind = "Some" <=> (c.kind = "Some" /\ N = 1)
        /\ arrRet.kind = "Some" => arrRet.val = <<TValue(v.body[1])>>
        /\ (c.kind = "None" \/ (c.kind = "Some" /\ N # 1)) => arrRet = Ret("None", <<>>)

C9_Witness ==
    /\ arrPc = "done" /\ v.kind = "Other" /\ N = 1
    /\ arrRet = Ret("Some", <<TValue(v.body[1])>>)

\* C11: for a source that is not a List, Vec<T>::from_input_value converts
\* it as a single T: it returns the one-element sequence of that T when the
\* conversion succeeds and None when it fails, and never an empty sequence.
C11_SingleToVec ==
    (vecRet.kind # "Pending" /\ v.kind = "Other") =>
        LET c == Convert(v.body[1]) IN
        /\ c.kind = "Some" => vecRet = Ret("Some", <<TValue(v.body[1])>>)
        /\ c.kind = "None" => vecRet = Ret("None", <<>>)
        /\ vecRet.kind = "Some" => Len(vecRet.val) = 1

C11_Witness ==
    /\ v.kind = "Other" /\ Convert(v.body[1]).kind = "Some"
    /\ vecRet = Ret("Some", <<TValue(v.body[1])>>)

\* The source elements among the first p that convert.
ConvertedUpTo(ls, p) == {q \in 1..p : Convert(ls[q]).kind = "Some"}

\* The elements at which the array conversion stops: one whose conversion
\* panics, or the (n+1)-th one that converts.
StopsAt(ls, n, p) ==
    \/ Convert(ls[p]).kind = "Panic"
    \/ Convert(ls[p]).kind = "Some" /\ Cardinality(ConvertedUpTo(ls, p)) = n + 1

\* The number of source elements the array conversion converts.
Consumed(ls, n) ==
    IF \E p \in DOMAIN ls : StopsAt(ls, n, p)
    THEN CHOOSE p \in DOMAIN ls : StopsAt(ls, n, p) /\ \A q \in 1..(p - 1) : ~StopsAt(ls, n, q)
    ELSE Len(ls)

\* C14: on a source List, [T; N]::from_input_value converts elements only
\* when the List's element count equals N; when the count differs from N
\* it fails without converting the elements.
C14_CountBeforeConversion ==
    (v.kind = "List" /\ Len(v.body) # N) =>
        /\ items = 0
        /\ arrPc = "done" => arrRet = Ret("None", <<>>)

\* C14 (amended): on a source List, [T; N]::from_input_value converts the
\* elements one by one in source order whatever the List's length. It stops
\* at the first element whose conversion panics or that is the (N+1)-th to
\* convert (too many: None), else when the List is exhausted (None when
\* fewer than N elements converted); no element after that is converted.
C14_LazyCount ==
    v.kind = "List" =>
        /\ items <= Consumed(v.body, N)
        /\ arrPc = "done" =>
              /\ items = Consumed(v.body, N)
              /\ Cardinality(ConvertedUpTo(v.body, items)) > N => arrRet = Ret("None", <<>>)
              /\ (arrRet.kind # "Panic" /\ Cardinality(ConvertedUpTo(v.body, items)) < N)
                    => arrRet = Ret("None", <<>>)

C14_Witness ==
    /\ arrPc = "done" /\ v.kind = "List" /\ AllConvertible(v.body)
    /\ Len(v.body) = 3 /\ N = 1
    /\ items = 2 /\ arrRet = Ret("None", <<>>)

(* ===================================================================== *)
(*  MyScalarValueVisitor: visit_i32, visit_i64, visit_u64                *)
(* ===================================================================== *)

\* A 64-bit pattern is four 16-bit limbs, most significant first; an i32 is
\* two. Signed values are two's complement, so `as` casts between integer
\* types of one width keep the limbs and narrowing casts keep the low ones.
Limb == 2 ^ 16
Half == 2 ^ 15

Near(S) == {b + d : b \in S, d \in (0 - Spread) .. Spread} \cap (0 .. Limb - 1)

\* Limbs around the sign bit and both ends of the limb range.
SignLimbs == Near({0, Half, Limb - 1})

\* Low limbs, also around the f64 rounding points (53-bit mantissa: the low
\* 11 bits of a 64-bit magnitude are rounded away) and the carry out.
LowLimbs == Near({0, 2 ^ 10, 3 * (2 ^ 10), Limb - 2 ^ 10, Limb - 1})

Bits64 == {<<a, b, c, d>> : a \in SignLimbs, b \in SignLimbs, c \in SignLimbs, d \in LowLimbs}

IsNeg(x) == x[1] >= Half

\* Unsigned <= of two patterns of one width.
RECURSIVE LeU(_, _)
LeU(x, y) ==
    IF Len(x) = 0 THEN TRUE
    ELSE IF x[1] # y[1] THEN x[1] < y[1]
    ELSE LeU(Tail(x), Tail(y))

\* Signed <= of two patterns of one width.
LeI(x, y) == IF IsNeg(x) # IsNeg(y) THEN IsNeg(x) ELSE LeU(x, y)

\* `value as i32` of an i64: the low 32 bits.
AsI32(x) == <<x[3], x[4]>>

\* i64::from(i32): sign extension.
I64FromI32(x) == IF IsNeg(x) THEN <<Limb - 1, Limb - 1, x[1], x[2]>> ELSE <<0, 0, x[1], x[2]>>

I32Max == <<Half - 1, Limb - 1>>
I64Max == <<Half - 1, Limb - 1, Limb - 1, Limb - 1>>

\* s + 1 on limbs, one limb longer (the carry out in front).
RECURSIVE IncLimbs(_)
IncLimbs(s) ==
    IF Len(s) = 0 THEN <<1>>
    ELSE LET front == SubSeq(s, 1, Len(s) - 1)
             lst == s[Len(s)]
         IN IF lst + 1 < Limb THEN <<0>> \o front \o <<lst + 1>>
            ELSE IncLimbs(front) \o <<0>>

\* `value as f64` of a u64 above i64::MAX (64 significant bits): rounded to
\* the nearest multiple of 2^11, ties to the even mantissa. The f64 is given
\* by the integer it equals, on five limbs.
U64AsF64(x) ==
    LET r == x[4] % (2 ^ 11)
        base == x[4] - r
        up == r > 2 ^ 10 \/ (r = 2 ^ 10 /\ (x[4] \div (2 ^ 11)) % 2 = 1)
    IN IF ~up THEN <<0, x[1], x[2], x[3], base>>
       ELSE IF base + 2 ^ 11 < Limb THEN <<0, x[1], x[2], x[3], base + 2 ^ 11>>
       ELSE IncLimbs(<<x[1], x[2], x[3]>>) \o <<0>>

\* Ok(MyScalarValue::<tag>(val))
Scalar(tag, val) == [ok |-> TRUE, tag |-> tag, val |-> val]

\* visit_i32
VisitI32(x) == Scalar("Int", x)

\* visit_i64
VisitI64(x) ==
    IF LeI(x, I64FromI32(I32Max)) THEN VisitI32(AsI32(x)) ELSE Scalar("Long", x)

\* visit_u64
VisitU64NarrowBound(x) ==
    IF LeU(x, I64FromI32(I32Max)) THEN VisitI64(x) ELSE Scalar("Float", U64AsF64(x))

VisitU64(x) ==
    IF LeU(x, I64Max) THEN VisitI64(x) ELSE Scalar("Float", U64AsF64(x))

NotDecoded == [fn |-> "none", out |-> [ok |-> FALSE, tag |-> "none", val |-> <<>>]]

ScalarInit ==
    /\ num \in Bits64
    /\ decoded = NotDecoded

\* The deserializer hands the number to visit_i64.
CallVisitI64 ==
    /\ decoded.fn = "none"
    /\ decoded' = [fn |-> "visit_i64", out |-> VisitI64(num)]
    /\ UNCHANGED num
    /\ UNCHANGED scalarRest

\* The deserializer hands the number to visit_u64.
CallVisitU64 ==
    /\ decoded.fn = "none"
    /\ decoded' = [fn |-> "visit_u64", out |-> VisitU64(num)]
    /\ UNCHANGED num
    /\ UNCHANGED scalarRest

ScalarNext == CallVisitI64 \/ CallVisitU64

(* ------------------------ claims: the visitor -------------------------- *)

\* x lies in [-2^31, 2^31 - 1].
FitsI32(x) ==
    \/ x[1] = 0 /\ x[2] = 0 /\ x[3] < Half
    \/ x[1] = Limb - 1 /\ x[2] = Limb - 1 /\ x[3] >= Half

\* 4294967297 = 2^32 + 1
LargeId == <<0, 1, 0, 1>>

\* C4: visit_i64 yields Int(v) for every v in the signed 32-bit range and
\* Long(v) for every other v, negative ones below -2^31 included; the
\* number held is v itself.
C4_VisitI64 ==
    decoded.fn = "visit_i64" =>
        IF FitsI32(num)
        THEN decoded.out = Scalar("Int", AsI32(num)) /\ I64FromI32(decoded.out.val) = num
        ELSE decoded.out = Scalar("Long", num)

\* C5: visit_u64 never fails; for v <= 2^63 - 1 it returns what visit_i64
\* returns for v (Long(4294967297) for 4294967297), and for larger v it
\* returns Float(v as f64), which is v only when v is a multiple of 2^11.
C5_VisitU64 ==
    decoded.fn = "visit_u64" =>
        /\ decoded.out.ok
        /\ IF num[1] < Half
           THEN /\ decoded.out = VisitI64(num)
                /\ num = LargeId => decoded.out = Scalar("Long", LargeId)
           ELSE /\ decoded.out = Scalar("Float", U64AsF64(num))
                /\ decoded.out.val = <<0>> \o num <=> num[4] % (2 ^ 11) = 0

C5_Witness ==
    /\ decoded.fn = "visit_u64" /\ num = LargeId
    /\ decoded.out = Scalar("Long", LargeId)

(* ===================================================================== *)
(*  resolve_into_list and resolve_into_list_async                        *)
(* ===================================================================== *)

\* What resolving a value directly (its own resolve / resolve_async) comes
\* to: a FieldError, Value::null(), or a leaf value 1..MaxVal.
Failing == 0 - 1
Null == 0
Outcome == Failing .. MaxVal

\* Value::is_null()
IsNull(val) == val = Null

\* executor.resolve(info, o): the value's own ExecutionResult, unchanged.
ExecutorResolve(o) ==
    IF o = Failing THEN Ret("Err", <<>>)
    ELSE IF o = Null THEN Ret("Null", <<>>)
    ELSE Ret("Leaf", <<o>>)

\* executor.resolve_into_value_async(info, o).await: a Value, never an
\* error; a failed resolution is recorded by the executor and becomes Null.
ResolveIntoValueAsync(o) ==
    IF o = Failing THEN [value |-> Null, pushed |-> <<o>>]
    ELSE [value |-> o, pushed |-> <<>>]

\* A Value as an ExecutionResult.
OkValue(val) == IF IsNull(val) THEN Ret("Null", <<>>) ELSE Ret("Leaf", <<val>>)

\* .list_contents().expect(..).is_non_null()
ListContents == {"absent", "nullable", "non_null"}

StopOnNullNever(c) == FALSE

StopOnNull(c) == c = "non_null"

\* The `for o in iter` loop of resolve_into_list, from element i on, with
\* `result` collected so far; `resolved` counts the elements resolved.
RECURSIVE SyncLoop(_, _, _, _)
SyncLoop(es, stop, i, result) ==
    IF i > Len(es) THEN [ret |-> Ret("List", result), resolved |-> Len(es)]
    ELSE LET r == ExecutorResolve(es[i]) IN
         IF r.kind = "Err" THEN [ret |-> r, resolved |-> i]
         ELSE IF stop /\ r.kind = "Null" THEN [ret |-> r, resolved |-> i]
         ELSE SyncLoop(es, stop, i + 1, Append(result, es[i]))

\* resolve_into_list
ResolveIntoListKeepsNulls(es, c) ==
    IF c = "absent" THEN [ret |-> Ret("Panic", <<>>), resolved |-> 0]
    ELSE SyncLoop(es, FALSE, 1, <<>>)

ResolveIntoListLenient(es, c) == SyncLoop(es, StopOnNull(c), 1, <<>>)

ResolveIntoList(es, c) ==
    IF c = "absent" THEN [ret |-> Ret("Panic", <<>>), resolved |-> 0]
    ELSE SyncLoop(es, StopOnNull(c), 1, <<>>)

\* FuturesOrdered::next(): the futures that may yield now, the k-th being
\* the next in source order.
YieldsUnordered(futs, k) == {i \in DOMAIN futs : futs[i] = "ready"}

Yields(futs, k) == {i \in DOMAIN futs : i = k /\ futs[i] = "ready"}

Unset == 0 - 2

ListInit ==
    /\ elems \in SeqsUpTo(Outcome, MaxLen)
    /\ contents \in ListContents
    /\ syncRet = [ret |-> Ret("Pending", <<>>), resolved |-> 0]
    /\ asyncPc = "call"
    /\ futures = [i \in DOMAIN elems |-> "unborn"]
    /\ outputs = [i \in DOMAIN elems |-> Unset]
    /\ values = <<>>
    /\ order = <<>>
    /\ asyncRet = Ret("Pending", <<>>)

\* resolve_into_list(executor, info, iter), as one call.
SyncResolve ==
    /\ syncRet.ret.kind = "Pending"
    /\ syncRet' = ResolveIntoList(elems, contents)
    /\ UNCHANGED <<elems, contents, asyncPc, futures, outputs, values, order, asyncRet>>
    /\ UNCHANGED listRest

\* resolve_into_list_async up to its first await: stop_on_null (or the
\* expect's panic), the futures collected into FuturesOrdered, `values`.
AsyncStart ==
    /\ asyncPc = "call"
    /\ IF contents = "absent"
       THEN /\ asyncRet' = Ret("Panic", <<>>)
            /\ asyncPc' = "done"
            /\ UNCHANGED futures
       ELSE /\ futures' = [i \in DOMAIN elems |-> "pending"]
            /\ asyncPc' = "await"
            /\ UNCHANGED asyncRet
    /\ UNCHANGED <<elems, contents, syncRet, outputs, values, order>>
    /\ UNCHANGED listRest

\* One of the element futures, polled while the resolver awaits, finishes.
FutureCompletes(i) ==
    /\ asyncPc = "await"
    /\ futures[i] = "pending"
    /\ futures' = [futures EXCEPT ![i] = "ready"]
    /\ outputs' = [outputs EXCEPT ![i] = ResolveIntoValueAsync(elems[i]).value]
    /\ order' = Append(order, i)
    /\ UNCHANGED <<elems, contents, syncRet, asyncPc, values, asyncRet>>
    /\ UNCHANGED listRest

\* `while let Some(value) = futures.next().await`: one value is yielded.
AsyncTake ==
    /\ asyncPc = "await"
    /\ \E i \in Yields(futures, Len(values) + 1) :
          /\ futures' = [futures EXCEPT ![i] = "taken"]
          /\ IF StopOnNull(contents) /\ IsNull(outputs[i])
             THEN /\ asyncRet' = OkValue(outputs[i])
                  /\ asyncPc' = "done"
                  /\ UNCHANGED values
             ELSE /\ values' = Append(values, outputs[i])
                  /\ UNCHANGED <<asyncRet, asyncPc>>
    /\ UNCHANGED <<elems, contents, syncRet, outputs, order>>
    /\ UNCHANGED listRest

\* futures.next() yields None: the stream is exhausted, Ok(Value::list(values)).
AsyncFinish ==
    /\ asyncPc = "await"
    /\ \A i \in DOMAIN futures : futures[i] = "taken"
    /\ asyncRet' = Ret("List", values)
    /\ asyncPc' = "done"
    /\ UNCHANGED <<elems, contents, syncRet, futures, outputs, values, order>>
    /\ UNCHANGED listRest

ListNext ==
    \/ SyncResolve
    \/ AsyncStart
    \/ \E i \in DOMAIN elems : FutureCompletes(i)
    \/ AsyncTake
    \/ AsyncFinish

(* ----------------------- claims: list resolvers ------------------------ *)

SyncDone == syncRet.ret.kind # "Pending"
AsyncDone == asyncPc = "done"

\* The elements at which the synchronous loop stops: a failed resolution,
\* or a Null at a non-null position.
SyncStops(i) == elems[i] = Failing \/ (contents = "non_null" /\ elems[i] = Null)
FirstStop == CHOOSE i \in DOMAIN elems : SyncStops(i) /\ \A j \in 1..(i - 1) : ~SyncStops(j)

\* The values the elements resolve to, a failed resolution giving Null.
AsValues == [i \in DOMAIN elems |-> IF elems[i] = Failing THEN Null ELSE elems[i]]

\* C6: resolve_into_list resolves the elements in source order; when the
\* list contents are non-null and a resolved element is Null the result is
\* Null for the whole list; otherwise the result is the List of every
\* resolved element, Nulls included, in source order and as long as the
\* source.
C6_SyncNullOrList ==
    (SyncDone /\ contents # "absent") =>
        IF contents = "non_null" /\ \E i \in 1..syncRet.resolved : elems[i] = Null
        THEN syncRet.ret = Ret("Null", <<>>)
        ELSE /\ syncRet.ret.kind = "List"
             /\ Len(syncRet.ret.val) = Len(elems)
             /\ \A i \in DOMAIN elems : ExecutorResolve(elems[i]) = OkValue(syncRet.ret.val[i])

\* C6 (amended): resolve_into_list resolves the elements in source order up
\* to the first one whose resolution fails or, at a non-null position, gives
\* Null, and returns that element's error or Null for the whole list; when
\* there is no such element it returns the List of every resolved element,
\* Nulls included, in source order and as long as the source.
C6_SyncErrNullOrList ==
    (SyncDone /\ contents # "absent") =>
        IF \E i \in DOMAIN elems : SyncStops(i)
        THEN /\ syncRet.resolved = FirstStop
             /\ syncRet.ret = ExecutorResolve(elems[FirstStop])
             /\ syncRet.ret.kind \in {"Err", "Null"}
        ELSE /\ syncRet.resolved = Len(elems)
             /\ syncRet.ret = Ret("List", elems)

C6_Witness ==
    /\ SyncDone /\ contents = "non_null"
    /\ Len(elems) = 3 /\ elems[1] > Null /\ elems[2] = Null
    /\ syncRet = [ret |-> Ret("Null", <<>>), resolved |-> 2]

\* C7: whatever the order in which the element futures finish, a List
\* returned by resolve_into_list_async holds at index i the value source
\* element i resolved to, and is as long as the source.
C7_AsyncOrder ==
    asyncRet.kind = "List" =>
        /\ Len(asyncRet.val) = Len(elems)
        /\ \A i \in DOMAIN elems : asyncRet.val[i] = ResolveIntoValueAsync(elems[i]).value

C7_Witness ==
    /\ contents = "nullable" /\ Len(elems) = 3
    /\ elems[1] > Null /\ elems[2] = Null /\ elems[3] > Null /\ elems[1] # elems[3]
    /\ order = <<3, 2, 1>>
    /\ asyncRet = Ret("List", elems)

Taken(i) == futures[i] = "taken"

\* C12: resolve_into_list_async consumes the element results strictly in
\* source order. A Null of element k at a non-null position is consumed
\* only after the results of all earlier elements, and consuming it ends
\* the resolver with Null at once: no result of a later element is ever
\* consumed or waited for, whether or not that element finishes.
C12_OrderedConsumption ==
    /\ \A i \in DOMAIN futures : Taken(i) => \A j \in 1..(i - 1) : Taken(j)
    /\ \A k \in DOMAIN futures :
          (contents = "non_null" /\ Taken(k) /\ IsNull(outputs[k])) =>
              /\ asyncPc = "done"
              /\ asyncRet = Ret("Null", <<>>)
              /\ \A j \in DOMAIN futures : j > k => ~Taken(j)

C12_Witness ==
    /\ contents = "non_null" /\ Len(elems) = 3
    /\ order = <<2, 1>>
    /\ futures = <<"taken", "taken", "pending">>
    /\ IsNull(outputs[2])
    /\ asyncPc = "done" /\ asyncRet = Ret("Null", <<>>)

\* C13: without a list-contents descriptor at the current position, both
\* resolve_into_list and resolve_into_list_async panic (no Null, no List,
\* no resolution error) before any element resolution is started, for
\* every source, the empty one included.
C13_AbsentPanics ==
    contents = "absent" =>
        /\ SyncDone => syncRet = [ret |-> Ret("Panic", <<>>), resolved |-> 0]
        /\ asyncPc # "call" =>
              /\ asyncPc = "done" /\ asyncRet = Ret("Panic", <<>>)
              /\ \A i \in DOMAIN futures : futures[i] = "unborn"
              /\ order = <<>> /\ values = <<>>

C13_Witness ==
    /\ contents = "absent" /\ Len(elems) = 2
    /\ syncRet = [ret |-> Ret("Panic", <<>>), resolved |-> 0]
    /\ asyncPc = "done" /\ asyncRet = Ret("Panic", <<>>)
    /\ futures = <<"unborn", "unborn">>

(* ===================================================================== *)
(*  GraphQLValue and GraphQLValueAsync for Option<T>                     *)
(* ===================================================================== *)

NoneValue == [some |-> FALSE, obj |-> Null]
SomeValue(o) == [some |-> TRUE, obj |-> o]
OptionValue == {NoneValue} \cup {SomeValue(o) : o \in Outcome}

\* Option<T>::resolve
OptionResolveAlwaysDelegates(self) ==
    [ret |-> ExecutorResolve(self.obj), invoked |-> 1, pushed |-> <<>>]

OptionResolve(self) ==
    IF self.some
    THEN [ret |-> ExecutorResolve(self.obj), invoked |-> 1, pushed |-> <<>>]
    ELSE [ret |-> OkValue(Null), invoked |-> 0, pushed |-> <<>>]

\* Option<T>::resolve_async
OptionResolveAsync(self) ==
    IF self.some
    THEN LET r == ResolveIntoValueAsync(self.obj) IN
         [ret |-> OkValue(r.value), invoked |-> 1, pushed |-> r.pushed]
    ELSE [ret |-> OkValue(Null), invoked |-> 0, pushed |-> <<>>]

OptionInit ==
    /\ errors = <<>>
    /\ log = <<>>

\* executor resolves an Option through the synchronous entry point.
CallResolve(o) ==
    /\ Len(log) < MaxCalls
    /\ LET r == OptionResolve(o) IN
       /\ log' = Append(log, [entry |-> "resolve", self |-> o, ret |-> r.ret, invoked |-> r.invoked])
       /\ errors' = errors \o r.pushed
    /\ UNCHANGED optRest

\* executor resolves an Option through the asynchronous entry point.
CallResolveAsync(o) ==
    /\ Len(log) < MaxCalls
    /\ LET r == OptionResolveAsync(o) IN
       /\ log' = Append(log, [entry |-> "resolve_async", self |-> o, ret |-> r.ret, invoked |-> r.invoked])
       /\ errors' = errors \o r.pushed
    /\ UNCHANGED optRest

OptionNext ==
    \/ \E o \in OptionValue : CallResolve(o)
    \/ \E o \in OptionValue : CallResolveAsync(o)

(* ------------------------- claims: Option<T> --------------------------- *)

ConvIdle ==
    /\ v = ListValue(<<>>)
    /\ N = 0
    /\ out = NewGuard(0)
    /\ items = 0
    /\ elem = 0
    /\ arrPc = "idle"
    /\ arrRet = Ret("Pending", <<>>)
    /\ dropped = <<>>
    /\ vecRet = Ret("Idle", <<>>)

ScalarIdle ==
    /\ num = <<0, 0, 0, 0>>
    /\ decoded = [fn |-> "idle", out |-> NotDecoded.out]

ListIdle ==
    /\ elems = <<>>
    /\ contents = "nullable"
    /\ syncRet = [ret |-> Ret("Idle", <<>>), resolved |-> 0]
    /\ asyncPc = "idle"
    /\ futures = <<>>
    /\ outputs = <<>>
    /\ values = <<>>
    /\ order = <<>>
    /\ asyncRet = Ret("Pending", <<>>)

OptionIdle ==
    /\ errors = <<>>
    /\ log = <<>>

ConvStart == ConvInit /\ ScalarIdle /\ ListIdle /\ OptionIdle
ScalarStart == ScalarInit /\ ConvIdle /\ ListIdle /\ OptionIdle
ListStart == ListInit /\ ConvIdle /\ ScalarIdle /\ OptionIdle
OptionStart == OptionInit /\ ConvIdle /\ ScalarIdle /\ ListIdle

SpecConv == ConvStart /\ [][ConvNext]_vars
SpecScalar == ScalarStart /\ [][ScalarNext]_vars
SpecList == ListStart /\ [][ListNext]_vars
SpecOption == OptionStart /\ [][OptionNext]_vars

====
